---- MODULE Spec2Model ----
(***************************************************************************)
(* Model of the checkpointed bootstrap / correlation / complexity stages   *)
(* of MEEGbuddy (src/MEEGbuddy/meeg.py): sourceBootstrap,                  *)
(* sourceCorrelation and noreunPhi, together with the files they read and  *)
(* write and the process-wide numpy random generator they share.           *)
(*                                                                         *)
(* A source time series is represented by the sequence of trial ids        *)
(* (epochs.events[:,2], i.e. behavior row indices) whose waveforms were    *)
(* averaged to form it; the inverse operator is a fixed function of it.    *)
(* A mean is represented exactly as the pair <<sum, count>>.               *)
(***************************************************************************)
EXTENDS Integers, Sequences, FiniteSets, TLC

\* ------------------------------------------------------------------ bounds
MaxNboot == 3
MaxNave == 2
MaxBatch == 2
NBeh == 2
MaxPerm == 1
NSeeds == 2
RngMod == 2
NValues == 2
RScale == 2
MaxNullSamples == 2
AlphaDen == 4
MaxStat == 2

\* seed default of MEEGbuddy.__init__
CtorSeed == 551832

VARIABLES
    rng,          \* state of the process-wide numpy generator
    epochEvents,  \* events[:,2] of the saved epochs of the event
    blEvents,     \* events[:,2] of the saved 'Baseline' epochs
    manifest,     \* <subject>_<event>-bootstrap.npz
    ckpt,         \* <subject>_<i_min>-<i_max>_<event>-bootstrap.npz, by <<i_min,i_max>>
    tfrCkpt,      \* ..._<event>-bootstrap_power_<band>.npz and ..._itc_<band>.npz
    srcBase,      \* source files of (event,'Bootstrap','base')
    corr,         \* source files of (event,condition,'correlation')
    corrNpz,      \* <subject>_<event>-correlation.npz
    thr,          \* noreun_phi Threshold artifacts, by value
    pci,          \* noreun_phi pci artifacts, by value
    ica,          \* the ICA files by name, and the ICA-cleaned raw data
    workfiles,    \* the memory-mapped scratch files of the working directory
    jobs,         \* the runs of the subjects that share the working directory
    run,          \* the sourceBootstrap call in progress (or the last one)
    last          \* the last call made: operation, arguments, outcome

vars == <<rng, epochEvents, blEvents, manifest, ckpt, tfrCkpt, srcBase, corr,
          corrNpz, thr, pci, ica, workfiles, jobs, run, last>>

bootFiles == <<manifest, ckpt, tfrCkpt, srcBase>>
phiFiles == <<thr, pci>>
otherFiles == <<ica, workfiles, jobs>>
allFiles == <<manifest, ckpt, tfrCkpt, srcBase, corr, corrNpz, thr, pci, ica,
              workfiles, jobs>>

\* ------------------------------------------------------------ file contents
Absent == [state |-> "absent"]
Partial == [state |-> "partial"]

isfile(f) == f.state # "absent"

\* ------------------------------------------------------------------ helpers
Min(a, b) == IF a < b THEN a ELSE b

Rows == 0 .. (NBeh - 1)

Seeds == 0 .. (NSeeds - 1)

\* the elements of a set of integers in increasing order
RECURSIVE SortedSeq(_)
SortedSeq(S) ==
    IF S = {} THEN << >>
    ELSE LET m == CHOOSE x \in S : \A y \in S : x <= y
         IN  <<m>> \o SortedSeq(S \ {m})

InSeq(x, s) == \E i \in 1 .. Len(s) : s[i] = x

\* self.behavior[condition], one covariate value per behavior row
behavior == [i \in Rows |-> i * i]

RECURSIVE SumSeq(_)
SumSeq(s) == IF s = << >> THEN 0 ELSE Head(s) + SumSeq(Tail(s))

nanmean(s) == <<SumSeq(s), Len(s)>>

\* ---------------------------------------------------------- numpy.random
\* the generator is a deterministic state machine: a state, a step, an output
seedState(seed) == seed % RngMod

NextRng(r) == (r + 1) % RngMod

SeededState_notSeeded(r, seed) == r

\* np.random.seed(seed) executed in generator state r
SeededState(r, seed) == seedState(seed)

RECURSIVE RngAfter(_, _)
RngAfter(r, k) == IF k = 0 THEN r ELSE RngAfter(NextRng(r), k - 1)

\* the k-th integer of [0,n) drawn from state r
Draw(r, k, n) == RngAfter(r, k) % n

\* np.random.randint(0, n, (rows, cols)), filled in row-major order
randint(r, n, rows, cols) ==
    [k \in 1 .. rows |-> [a \in 1 .. cols |-> Draw(r, (k - 1) * cols + a, n)]]

\* ------------------------------------------------------------ batch ranges
range(a, b, s) ==
    LET n == IF b > a THEN (b - a + s - 1) \div s ELSE 0
    IN  [i \in 1 .. n |-> a + (i - 1) * s]

zip(x, y) == [i \in 1 .. Min(Len(x), Len(y)) |-> <<x[i], y[i]>>]

BatchRanges(Nboot, batch) ==
    zip(range(0, Nboot - batch + 1, batch), range(batch, Nboot + 1, batch))

BatchKeys == {k \in (0 .. MaxNboot) \X (1 .. MaxNboot) : k[1] < k[2]}

\* the default bands, in the order of the dictionary
Bands == <<"alpha", "beta">>

BandSet == {Bands[b] : b \in 1 .. Len(Bands)}

\* the power and the phase file of a band and a batch
TfrKeys == {"power", "itc"} \X BandSet \X BatchKeys

\* --------------------------------------------------------- sourceBootstrap
SBArgSet(seeds, nboots, naves, batches, tfrs, itcs) ==
    [seed : seeds, Nboot : nboots, Nave : naves, batch : batches,
     overwrite : BOOLEAN, tfr : tfrs, itc : itcs]

\* epochs.drop(removal_indices): the epochs with a baseline of the same id
MatchedEvents(ev, bl) == SelectSeq(ev, LAMBDA e : InSeq(e, bl))

\* the source estimate of one bootstrap sample
SampleStc(events, indices) == [a \in 1 .. Len(indices) |-> events[indices[a] + 1]]

ZeroStc == << >>

\* the mean over the bins of a band of the power, and of the phase, of the
\* wavelet transform of a source estimate
Power(band, stc) == <<"power", band, stc>>

Phase(band, stc) == <<"itc", band, stc>>

\* the file behind the memory map powers[band]
PowerWorkfile(band) == <<"sb_tfr", "">>

\* the file behind the memory map itcs[band]
ItcWorkfile(band) == <<"sb_tfr", "">>

\* the work files mapped by a run
TfrWorkfiles(tfr, itc) ==
    IF ~tfr THEN {}
    ELSE {PowerWorkfile(Bands[b]) : b \in 1 .. Len(Bands)}
            \cup (IF itc THEN {ItcWorkfile(Bands[b]) : b \in 1 .. Len(Bands)}
                  ELSE {})

\* the work files after the writes of slot i for the bands from b on
RECURSIVE WriteBands(_, _, _, _, _)
WriteBands(work, i, stc, itc, b) ==
    IF b > Len(Bands) THEN work
    ELSE LET w1 == [work EXCEPT ![PowerWorkfile(Bands[b])][i] =
                                     Power(Bands[b], stc)]
             w2 == IF itc
                   THEN [w1 EXCEPT ![ItcWorkfile(Bands[b])][i] =
                                       Phase(Bands[b], stc)]
                   ELSE w1
         IN  WriteBands(w2, i, stc, itc, b + 1)

\* the work files after the slots from i on were written
RECURSIVE WriteSlots(_, _, _, _)
WriteSlots(work, stcs, itc, i) ==
    IF i > Len(stcs) THEN work
    ELSE WriteSlots(WriteBands(work, i, stcs[i], itc, 1), stcs, itc, i + 1)

Idle == run.pc \in {"none", "done", "killed"}

SkipBatch_never(f, overwrite) == FALSE

SkipBatch(f, overwrite) == isfile(f) /\ ~overwrite

SBAlreadyExists_unchecked(m, overwrite) == FALSE

SBAlreadyExists(m, overwrite) == isfile(m) /\ ~overwrite

CurKey == BatchRanges(run.Nboot, run.batch)[run.bi]

SBReject(a) ==
    /\ Idle
    /\ SBAlreadyExists(manifest, a.overwrite)
    /\ last' = [op |-> "sourceBootstrap", result |-> "BootstrapsExist",
                overwrite |-> a.overwrite]
    /\ UNCHANGED <<rng, epochEvents, blEvents, allFiles, run>>

\* np.random.randint(0, 0, ...) raises before anything is written
SBNoTrials(a) ==
    /\ Idle
    /\ ~SBAlreadyExists(manifest, a.overwrite)
    /\ Len(MatchedEvents(epochEvents, blEvents)) = 0
    /\ rng' = SeededState(rng, a.seed)
    /\ last' = [op |-> "sourceBootstrap", result |-> "ValueError",
                overwrite |-> a.overwrite]
    /\ UNCHANGED <<epochEvents, blEvents, allFiles, run>>

SBStart(a) ==
    /\ Idle
    /\ ~SBAlreadyExists(manifest, a.overwrite)
    /\ LET events == MatchedEvents(epochEvents, blEvents)
           r0 == SeededState(rng, a.seed)
       IN  /\ Len(events) > 0
           /\ rng' = RngAfter(r0, a.Nboot * a.Nave)
           /\ run' = [pc |-> "loop", seed |-> a.seed, Nboot |-> a.Nboot,
                      Nave |-> a.Nave, batch |-> a.batch,
                      overwrite |-> a.overwrite, events |-> events,
                      bootstrap_indices |->
                          randint(r0, Len(events), a.Nboot, a.Nave),
                      stcs |-> [i \in 1 .. a.batch |-> ZeroStc],
                      tfr |-> a.tfr, itc |-> a.tfr /\ a.itc,
                      work |-> [n \in TfrWorkfiles(a.tfr, a.itc) |->
                                   [i \in 1 .. a.batch |-> ZeroStc]],
                      bi |-> 1, skipped |-> {}, entry |-> rng]
    /\ last' = [op |-> "sourceBootstrap", result |-> "running",
                overwrite |-> a.overwrite]
    /\ UNCHANGED <<epochEvents, blEvents, allFiles>>

SBBatchSkip ==
    /\ run.pc = "loop"
    /\ run.bi <= Len(BatchRanges(run.Nboot, run.batch))
    /\ SkipBatch(ckpt[CurKey], run.overwrite)
    /\ run' = [run EXCEPT !.bi = @ + 1, !.skipped = @ \cup {CurKey}]
    /\ UNCHANGED <<rng, epochEvents, blEvents, allFiles, last>>

SBBatchCompute ==
    /\ run.pc = "loop"
    /\ run.bi <= Len(BatchRanges(run.Nboot, run.batch))
    /\ ~SkipBatch(ckpt[CurKey], run.overwrite)
    /\ \E stcs \in {[i \in 1 .. run.batch |->
                         SampleStc(run.events,
                                   run.bootstrap_indices[CurKey[1] + i])]} :
           run' = [run EXCEPT
                     !.pc = "save",
                     !.stcs = stcs,
                     !.work = IF run.tfr
                              THEN WriteSlots(run.work, stcs, run.itc, 1)
                              ELSE run.work]
    /\ UNCHANGED <<rng, epochEvents, blEvents, allFiles, last>>

\* np.savez_compressed opens the target file itself and fills it in place
SBSaveBegin ==
    /\ run.pc = "save"
    /\ ckpt' = [ckpt EXCEPT ![CurKey] = Partial]
    /\ run' = [run EXCEPT !.pc = "saving"]
    /\ UNCHANGED <<rng, epochEvents, blEvents, manifest, tfrCkpt, srcBase, corr,
                   corrNpz, phiFiles, otherFiles, last>>

SBSaveEnd_fileLost ==
    /\ run.pc = "saving"
    /\ ckpt' = [ckpt EXCEPT ![CurKey] = Absent]
    /\ run' = IF run.tfr THEN [run EXCEPT !.pc = "tfr"]
               ELSE [run EXCEPT !.pc = "loop", !.bi = @ + 1]
    /\ UNCHANGED <<rng, epochEvents, blEvents, manifest, tfrCkpt, srcBase, corr,
                   corrNpz, phiFiles, otherFiles, last>>

SBSaveEnd ==
    /\ run.pc = "saving"
    /\ ckpt' = [ckpt EXCEPT ![CurKey] =
                   [state |-> "complete", stcs |-> run.stcs, seed |-> run.seed]]
    /\ run' = IF run.tfr THEN [run EXCEPT !.pc = "tfr"]
               ELSE [run EXCEPT !.pc = "loop", !.bi = @ + 1]
    /\ UNCHANGED <<rng, epochEvents, blEvents, manifest, tfrCkpt, srcBase, corr,
                   corrNpz, phiFiles, otherFiles, last>>

\* the power file, and with itc the phase file, of every band of the batch
SBSaveTfr ==
    /\ run.pc = "tfr"
    /\ tfrCkpt' =
           [k \in TfrKeys |->
               IF k[3] # CurKey THEN tfrCkpt[k]
               ELSE IF k[1] = "power"
               THEN [state |-> "complete", data |-> run.work[PowerWorkfile(k[2])]]
               ELSE IF run.itc
               THEN [state |-> "complete", data |-> run.work[ItcWorkfile(k[2])]]
               ELSE tfrCkpt[k]]
    /\ run' = [run EXCEPT !.pc = "loop", !.bi = @ + 1]
    /\ UNCHANGED <<rng, epochEvents, blEvents, manifest, ckpt, srcBase, corr,
                   corrNpz, phiFiles, otherFiles, last>>

SBManifestBegin ==
    /\ run.pc = "loop"
    /\ run.bi > Len(BatchRanges(run.Nboot, run.batch))
    /\ manifest' = Partial
    /\ run' = [run EXCEPT !.pc = "manifest"]
    /\ UNCHANGED <<rng, epochEvents, blEvents, ckpt, tfrCkpt, srcBase, corr,
                   corrNpz, phiFiles, otherFiles, last>>

SBManifestEnd ==
    /\ run.pc = "manifest"
    /\ manifest' = [state |-> "complete", events |-> run.events,
                    batch |-> run.batch,
                    bootstrap_indices |-> run.bootstrap_indices,
                    tfr |-> run.tfr, itc |-> run.itc,
                    seed |-> run.seed]
    /\ run' = [run EXCEPT !.pc = "source"]
    /\ UNCHANGED <<rng, epochEvents, blEvents, ckpt, tfrCkpt, srcBase, corr,
                   corrNpz, phiFiles, otherFiles, last>>

SBSaveSource ==
    /\ run.pc = "source"
    /\ srcBase' = [state |-> "complete", stc |-> run.events]
    /\ run' = [pc |-> "done"]
    /\ last' = [last EXCEPT !.result = "ok"]
    /\ UNCHANGED <<rng, epochEvents, blEvents, manifest, ckpt, tfrCkpt, corr,
                   corrNpz, phiFiles, otherFiles>>

\* the process is terminated in the middle of sourceBootstrap
Kill ==
    /\ ~Idle
    /\ run' = [pc |-> "killed"]
    /\ last' = [last EXCEPT !.result = "killed"]
    /\ UNCHANGED <<rng, epochEvents, blEvents, allFiles>>

\* any other random draw made by the process
RandomDraw ==
    /\ Idle
    /\ rng' = NextRng(rng)
    /\ last' = [op |-> "draw", result |-> "ok"]
    /\ UNCHANGED <<epochEvents, blEvents, allFiles, run>>

\* ------------------------------------------------------- sourceCorrelation
SCArgs == [overwrite : BOOLEAN, n_permutations : 1 .. MaxPerm]

ManifestRanges(m) == BatchRanges(Len(m.bootstrap_indices), m.batch)

\* whether every file of the batch that the combining loop loads is there
BatchLoads(m, cks, tcks, key) ==
    /\ cks[key].state = "complete"
    /\ m.tfr => \A b \in 1 .. Len(Bands) :
                   /\ tcks[<<"power", Bands[b], key>>].state = "complete"
                   /\ m.itc => tcks[<<"itc", Bands[b], key>>].state = "complete"

SCOutcome_noPrerequisiteTest(m, out, base, cks, tcks, overwrite) ==
    IF isfile(out) /\ ~overwrite THEN "CorrelationsExist"
    ELSE IF m.state # "complete" THEN "ManifestLoadError"
    ELSE IF ~isfile(base) THEN "NoSource"
    ELSE IF \E i \in 1 .. Len(ManifestRanges(m)) :
                ~BatchLoads(m, cks, tcks, ManifestRanges(m)[i])
         THEN "BatchLoadError"
    ELSE "ok"

SCOutcome(m, out, base, cks, tcks, overwrite) ==
    IF ~isfile(m) THEN "BootstrapsFirst"
    ELSE IF isfile(out) /\ ~overwrite THEN "CorrelationsExist"
    ELSE IF m.state # "complete" THEN "ManifestLoadError"
    ELSE IF ~isfile(base) THEN "NoSource"
    ELSE IF \E i \in 1 .. Len(ManifestRanges(m)) :
                ~BatchLoads(m, cks, tcks, ManifestRanges(m)[i])
         THEN "BatchLoadError"
    ELSE "ok"

\* the covariate attached to every bootstrap sample
bootstrap_conditions(m) ==
    [i \in 1 .. Len(m.bootstrap_indices) |->
        nanmean([a \in 1 .. Len(m.bootstrap_indices[i]) |->
                    behavior[m.bootstrap_indices[i][a]]])]

\* the memory-mapped array of all samples, filled from the batch files
CombinedStcs(m, cks) ==
    [j \in 1 .. Len(m.bootstrap_indices) |->
        IF \E i \in 1 .. Len(ManifestRanges(m)) :
               ManifestRanges(m)[i][1] < j /\ j <= ManifestRanges(m)[i][2]
        THEN LET key == CHOOSE k \in {ManifestRanges(m)[i] :
                                         i \in 1 .. Len(ManifestRanges(m))} :
                            k[1] < j /\ j <= k[2]
             IN  cks[key].stcs[j - key[1]]
        ELSE ZeroStc]

sourceCorrelation(a) ==
    /\ Idle
    /\ LET res == SCOutcome(manifest, corrNpz, srcBase, ckpt, tfrCkpt, a.overwrite)
           Nboot == Len(manifest.bootstrap_indices)
       IN  /\ last' = [op |-> "sourceCorrelation", result |-> res,
                       overwrite |-> a.overwrite]
           /\ rng' = IF res \in {"ok", "BatchLoadError"}
                     THEN RngAfter(rng, a.n_permutations * Nboot)
                     ELSE rng
           /\ corr' = IF res = "ok"
                      THEN [state |-> "complete",
                            conditions |-> bootstrap_conditions(manifest),
                            stcs |-> CombinedStcs(manifest, ckpt),
                            permutation_indices |->
                                randint(rng, Nboot, a.n_permutations, Nboot)]
                      ELSE corr
    /\ UNCHANGED <<epochEvents, blEvents, bootFiles, corrNpz, phiFiles, otherFiles,
                 run>>

\* ------------------------------------------- sourceCorrelation: cell statistic
\* a correlation coefficient r is represented by the integer r * RScale
RValues == (0 - RScale) .. RScale

abs(x) == IF x < 0 THEN 0 - x ELSE x

sign(x) == IF x < 0 THEN 0 - 1 ELSE IF x > 0 THEN 1 ELSE 0

\* a rational number is the pair <<numerator, denominator>>
Inverse(q) == <<q[2], q[1]>>

Times(q, k) == <<q[1] * k, q[2]>>

Exceedances_notStrict(bl_dist, r) ==
    Cardinality({i \in 1 .. Len(bl_dist) : abs(bl_dist[i]) >= abs(r)})

\* sum(abs(bl_dist[s_ind]) > abs(r))
Exceedances(bl_dist, r) ==
    Cardinality({i \in 1 .. Len(bl_dist) : abs(bl_dist[i]) > abs(r)})

\* p = sum(abs(bl_dist[s_ind]) > abs(r)) / n_permutations
PValue(bl_dist, r, n_permutations) == <<Exceedances(bl_dist, r), n_permutations>>

\* stc_result.data[s_ind,t_ind]
InvPStatistic(bl_dist, r, n_permutations) ==
    IF PValue(bl_dist, r, n_permutations)[1] > 0
    THEN Times(Inverse(PValue(bl_dist, r, n_permutations)), sign(r))
    ELSE Times(<<1, n_permutations>>, sign(r))

\* one cell of the second loop: the regression of the samples on the
\* covariate gave r, the first loop filled the source's row of bl_dist
CellStatistic ==
    /\ last.op = "cell"
    /\ last' = [op |-> "statistic", result |-> "ok", r |-> last.r,
                bl_dist |-> last.bl_dist, n_permutations |-> Len(last.bl_dist),
                value |-> InvPStatistic(last.bl_dist, last.r, Len(last.bl_dist))]
    /\ UNCHANGED <<rng, epochEvents, blEvents, allFiles, run>>


\* ---------------------------------------------------------------- noreunPhi
\* the condition values; the artifacts of 'all' are filed under AllValue
Values == 1 .. NValues

AllValue == 0

\* alpha is the string '50_50' or the number alpha / AlphaDen
AlphaArgs(nums) ==
    [policy : {"bootstrap"}, alpha : nums] \cup {[policy |-> "50_50", alpha |-> 0]}

Alphas == (0 - 1) .. (AlphaDen + 1)

PhiArgSet(valueSets, shared, seeds, flags, alphas) ==
    [values : valueSets, shared_baseline : shared,
     recalculate_baseline : flags, recalculate_PCI : flags,
     downsample : BOOLEAN, seed : seeds, alpha : alphas]

\* the arrays a threshold computation works on: the trial waveforms Y, the
\* source waveform J and its baseline standard deviation Norm (preprocess),
\* the max-statistics of the resampled baselines, the analysis window tind
PhiDataSet(Ys, Js, Norms, Boots, tinds) ==
    [Y : Ys, J : Js, Norm : Norms, Bootstraps : Boots, tind : tinds]

Matrices(rows, cols, vals) == [1 .. rows -> [1 .. cols -> vals]]

\* np.reshape(Bootstraps, (Nboot*N0)): the rows one after the other
RECURSIVE Flatten(_)
Flatten(M) == IF M = << >> THEN << >> ELSE Head(M) \o Flatten(Tail(M))

RECURSIVE SortInsert(_, _)
SortInsert(x, s) ==
    IF s = << >> THEN <<x>>
    ELSE IF x <= Head(s) THEN <<x>> \o s
    ELSE <<Head(s)>> \o SortInsert(x, Tail(s))

\* np.sort: ascending
RECURSIVE npsort(_)
npsort(s) == IF s = << >> THEN << >> ELSE SortInsert(Head(s), npsort(Tail(s)))

calpha_index_fromAlpha(alpha, Nboot, N0) == (alpha * Nboot * N0) \div AlphaDen

\* int(np.floor((1 - alpha) * Nboot * N0))
calpha_index(alpha, Nboot, N0) == ((AlphaDen - alpha) * Nboot * N0) \div AlphaDen

\* whether s[i] is an element of the array s: a negative i counts from the end
InBounds(s, i) == (0 - Len(s)) <= i /\ i < Len(s)

\* s[i] for an index in bounds
Item(s, i) == IF i < 0 THEN s[Len(s) + i + 1] ELSE s[i + 1]

\* np.kron(np.ones((1,nTIME)), TT.reshape((nSRC,1))); a threshold is the
\* rational <<numerator, denominator>>
kron(TT, nTIME) == [s \in 1 .. Len(TT) |-> [t \in 1 .. nTIME |-> <<TT[s], 1>>]]

\* the arrays after the call, and the Threshold returned
baseline_bootstrap(Y, J, Norm, Bootstraps, alpha) ==
    LET Nboot == Len(Bootstraps)
        N0 == Len(Bootstraps[1])
        sorted == npsort(Flatten(Bootstraps))
        index == calpha_index(alpha, Nboot, N0)
    IN  IF ~InBounds(sorted, index)
        THEN [result |-> "IndexError", Y |-> Y, J |-> J]
        ELSE [result |-> "ok", Y |-> Y, J |-> J,
              Threshold |->
                  kron([s \in 1 .. Len(J) |-> Norm[s] * Item(sorted, index)],
                       Len(J[1]))]

\* np.median of a non-empty array: the middle element, or the mean of the two
median(s) ==
    LET n == Len(s)
        sorted == npsort(s)
    IN  IF n % 2 = 1 THEN <<sorted[(n + 1) \div 2], 1>>
        ELSE <<sorted[n \div 2] + sorted[n \div 2 + 1], 2>>

threshold_50_50_absInPlace(Y, J, tind) ==
    [result |-> "ok", Y |-> Y,
     J |-> [i \in 1 .. Len(J) |-> [t \in 1 .. Len(J[i]) |-> abs(J[i][t])]],
     Threshold |->
         [i \in 1 .. Len(J) |-> [t \in 1 .. Len(J[i]) |->
              median([k \in 1 .. Len(tind) |-> abs(J[i][tind[k]])])]]]

threshold_50_50(Y, J, tind) ==
    [result |-> "ok", Y |-> Y, J |-> J,
     Threshold |->
         [i \in 1 .. Len(J) |-> [t \in 1 .. Len(J[i]) |->
              median([k \in 1 .. Len(tind) |-> abs(J[i][tind[k]])])]]]

\* the Threshold of one value, by the policy alpha selects
ComputeThreshold(alpha, d) ==
    IF alpha.policy = "50_50"
    THEN threshold_50_50(d.Y, d.J, d.tind)
    ELSE baseline_bootstrap(d.Y, d.J, d.Norm, d.Bootstraps, alpha.alpha)

\* one threshold computation on its own
ThresholdPolicy ==
    /\ last.op = "arrays"
    /\ \E c \in {ComputeThreshold(last.alpha, last.data)} :
           last' = [op |-> "threshold", result |-> c.result,
                    alpha |-> last.alpha, data |-> last.data, out |-> c]
    /\ UNCHANGED <<rng, epochEvents, blEvents, allFiles, run>>

\* the values whose baseline is thresholded, in loop order
BaselineValues(a) ==
    IF a.shared_baseline THEN <<AllValue>> ELSE SortedSeq(a.values)

\* the Threshold artifact the PCI of value v is computed from
BaselineOf(a, v) == IF a.shared_baseline THEN AllValue ELSE v

SkipThreshold_flagIgnored(f, recalculate_baseline) == isfile(f)

SkipThreshold(f, recalculate_baseline) == isfile(f) /\ ~recalculate_baseline

SkipPCI_never(f, recalculate_PCI) == FALSE

SkipPCI(f, recalculate_PCI) == isfile(f) /\ ~recalculate_PCI

\* draws of one threshold computation: the shuffle, then the bootstrap
ThresholdDraws(a) ==
    (IF a.downsample THEN 1 ELSE 0) + (IF a.alpha.policy = "50_50" THEN 0 ELSE 1)

\* the first loop, from the i-th value on: Threshold artifacts t, generator
\* state r, artifacts written so far w; c is what the threshold computation
\* of a value gives; an error ends the call
RECURSIVE BaselineLoop(_, _, _, _, _, _)
BaselineLoop(a, c, t, r, w, i) ==
    IF i > Len(BaselineValues(a))
    THEN [thr |-> t, rng |-> r, wrote |-> w, result |-> "ok"]
    ELSE IF SkipThreshold(t[BaselineValues(a)[i]], a.recalculate_baseline)
    THEN BaselineLoop(a, c, t, r, w, i + 1)
    ELSE IF c.result # "ok"
    THEN [thr |-> t, rng |-> RngAfter(r, ThresholdDraws(a)), wrote |-> w,
          result |-> c.result]
    ELSE BaselineLoop(a, c,
                      [t EXCEPT ![BaselineValues(a)[i]] =
                          [state |-> "complete", draws |-> r,
                           Y |-> c.Y, J |-> c.J, Threshold |-> c.Threshold,
                           alpha |-> a.alpha]],
                      RngAfter(r, ThresholdDraws(a)),
                      w \cup {<<"Threshold", BaselineValues(a)[i]>>},
                      i + 1)

\* np.array(np.abs(J) > Threshold, dtype=int)
binarize(J, Threshold) ==
    [s \in 1 .. Len(J) |-> [t \in 1 .. Len(J[s]) |->
        IF abs(J[s][t]) * Threshold[s][t][2] > Threshold[s][t][1] THEN 1 ELSE 0]]

ArgsortInsert_unstable(keys, i, s) ==
    IF s = << >> THEN <<i>>
    ELSE IF keys[i] < keys[Head(s)] THEN <<i>> \o s
    ELSE <<Head(s), i>> \o Tail(s)

\* the row i, lower than every row of s, put into s, which is sorted by key
RECURSIVE ArgsortInsert(_, _, _)
ArgsortInsert(keys, i, s) ==
    IF s = << >> THEN <<i>>
    ELSE IF keys[i] <= keys[Head(s)] THEN <<i>> \o s
    ELSE <<Head(s)>> \o ArgsortInsert(keys, i, Tail(s))

\* np.argsort(keys, kind='mergesort') of the rows from i on; rows count from 1
RECURSIVE argsort(_, _)
argsort(keys, i) ==
    IF i > Len(keys) THEN << >>
    ELSE ArgsortInsert(keys, i, argsort(keys, i + 1))

\* binJ, Irank, binJrank and the binJ handed to computePCI
RankedBinary(J, Threshold, tind) ==
    LET binJ == binarize(J, Threshold)
        Irank == argsort([s \in 1 .. Len(binJ) |-> SumSeq(binJ[s])], 1)
        binJrank == [i \in 1 .. Len(Irank) |-> binJ[Irank[i]]]
    IN  [activation |-> binJ, Irank |-> Irank, binJrank |-> binJrank,
         binJ |-> [i \in 1 .. Len(binJrank) |->
                      [k \in 1 .. Len(tind) |-> binJrank[i][tind[k]]]]]

\* the binarization and ranking of one value on their own
BinarizeAndRank ==
    /\ last.op = "waveform"
    /\ last' = [op |-> "rank", result |-> "ok", J |-> last.J,
                Threshold |-> last.Threshold, tind |-> last.tind,
                ranked |-> RankedBinary(last.J, last.Threshold, last.tind)]
    /\ UNCHANGED <<rng, epochEvents, blEvents, allFiles, run>>

\* --------------------------------------------------- noreunPhi: computePCI
RECURSIVE Pow(_, _)
Pow(b, e) == IF e = 0 THEN 1 ELSE b * Pow(b, e - 1)

\* pci.pci_norm_factor: the largest complexity count of a matrix of L cells
\* of which n1 are active, L * H(n1/L) / log2(L) with H the binary entropy;
\* kept as the pair of L and n1
pci_norm_factor(binJ) ==
    [L |-> Len(binJ) * Len(binJ[1]),
     n1 |-> SumSeq([s \in 1 .. Len(binJ) |-> SumSeq(binJ[s])])]

\* the entropy of a matrix with no active cell, or no inactive one, is zero
NormIsZero(norm) == norm.n1 = 0 \/ norm.n1 = norm.L

\* c <= L * H / log2(L), that is L^c * n1^n1 * n0^n0 <= L^L
WithinNorm(c, norm) ==
    Pow(norm.L, c) * Pow(norm.n1, norm.n1)
        * Pow(norm.L - norm.n1, norm.L - norm.n1) <= Pow(norm.L, norm.L)

\* pci.lz_complexity_2D: the count of the words met up to every time sample,
\* one curve per matrix; any curve that never decreases and stays within
\* the largest count can be that of a matrix
LZCurves(binJ) ==
    {c \in [1 .. Len(binJ[1]) -> 0 .. Len(binJ[1])] :
        /\ \A t \in 1 .. (Len(c) - 1) : c[t] <= c[t + 1]
        /\ \A t \in 1 .. Len(c) : WithinNorm(c[t], pci_norm_factor(binJ))}

\* the division of a numpy float by a numpy float
Divide(c, norm) ==
    IF NormIsZero(norm)
    THEN IF c = 0 THEN [kind |-> "nan"] ELSE [kind |-> "inf"]
    ELSE [kind |-> "number", c |-> c, norm |-> norm]

\* ct = ct / norm, for the count curve ct of binJ
computePCI ==
    /\ last.op = "binary"
    /\ last' = [op |-> "pci", result |-> "ok", binJ |-> last.binJ,
                counts |-> last.counts,
                ct |-> [t \in 1 .. Len(last.counts) |->
                           Divide(last.counts[t], pci_norm_factor(last.binJ))]]
    /\ UNCHANGED <<rng, epochEvents, blEvents, allFiles, run>>

load_noreun_baseline_unchecked(f, value) ==
    IF isfile(f)
    THEN [result |-> "ok", J |-> f.J, Threshold |-> f.Threshold]
    ELSE [result |-> "ok", J |-> << >>, Threshold |-> << >>]

\* _load_noreun_baseline of the Threshold artifact f filed under value
load_noreun_baseline(f, value) ==
    IF isfile(f)
    THEN [result |-> "ok", J |-> f.J, Threshold |-> f.Threshold]
    ELSE [result |-> "ThresholdNotComputed", missing |-> value]

\* the second loop, from the i-th value on; _load_noreun_baseline raises
\* when the Threshold artifact is missing
RECURSIVE PCILoop(_, _, _, _, _, _)
PCILoop(a, d, t, p, w, i) ==
    IF i > Cardinality(a.values) THEN [pci |-> p, result |-> "ok", wrote |-> w]
    ELSE IF SkipPCI(p[SortedSeq(a.values)[i]], a.recalculate_PCI)
    THEN PCILoop(a, d, t, p, w, i + 1)
    ELSE LET b == BaselineOf(a, SortedSeq(a.values)[i])
             f == load_noreun_baseline(t[b], b)
         IN  IF f.result # "ok"
             THEN [pci |-> p, result |-> f.result, wrote |-> w,
                   missing |-> f.missing]
             ELSE PCILoop(a, d, t,
                          [p EXCEPT ![SortedSeq(a.values)[i]] =
                              [state |-> "complete",
                               Threshold |-> t[b],
                               ranked |-> RankedBinary(f.J, f.Threshold, d.tind)]],
                          w \cup {<<"pci", SortedSeq(a.values)[i]>>},
                          i + 1)

\* the second loop on its own, over the artifacts that are on disk
PCIStage ==
    /\ last.op = "artifacts"
    /\ \E pc \in {PCILoop(last.args, last.data, thr, pci, {}, 1)} :
           /\ pci' = pc.pci
           /\ last' = [op |-> "pciStage", result |-> pc.result,
                       args |-> last.args, data |-> last.data,
                       wrote |-> pc.wrote,
                       missing |-> IF pc.result = "ok" THEN 0 - 1
                                   ELSE pc.missing]
    /\ UNCHANGED <<rng, epochEvents, blEvents, bootFiles, corr, corrNpz, thr,
                 otherFiles, run>>

noreunPhi(a, d) ==
    /\ Idle
    /\ \E c \in {ComputeThreshold(a.alpha, d)} :
       \E bl \in {BaselineLoop(a, c, thr,
                               IF a.downsample THEN SeededState(rng, a.seed)
                               ELSE rng,
                               {}, 1)} :
         \E pc \in {IF bl.result = "ok"
                    THEN PCILoop(a, d, bl.thr, pci, {}, 1)
                    ELSE [pci |-> pci, result |-> bl.result, wrote |-> {}]} :
           /\ rng' = bl.rng
           /\ thr' = bl.thr
           /\ pci' = pc.pci
           /\ last' = [op |-> "noreunPhi", result |-> pc.result,
                       values |-> a.values,
                       shared_baseline |-> a.shared_baseline,
                       recalculate_baseline |-> a.recalculate_baseline,
                       recalculate_PCI |-> a.recalculate_PCI,
                       alpha |-> a.alpha, data |-> d,
                       wrote |-> bl.wrote \cup pc.wrote]
    /\ UNCHANGED <<epochEvents, blEvents, bootFiles, corr, corrNpz, otherFiles, run>>

\* the recording used where the data plays no part: two sources, two times
PlainData ==
    PhiDataSet({<<1, 2>>}, {<<<<2, 0>>, <<0, 0>>>>}, {<<1, 1>>},
               {<<<<0, 1>>, <<1, 2>>>>}, {<<1, 2>>})

PlainAlpha == {[policy |-> "bootstrap", alpha |-> 1]}

\* ------------------------------------------------------------------ findICA
\* keyword_out: None, a keyword, and a keyword that is also a data type
Keywords == {"None", "k", "grad"}

\* ['grad','mag']*self.meg + ['eeg']*self.eeg of a recording with both
data_types == <<"grad", "mag", "eeg">>

\* a file name of the ica directory is given by its tags, which _fname joins
\* with '_': the name findICA tests
ICATestName(keyword_out) ==
    IF keyword_out = "None" THEN << >> ELSE <<keyword_out>>

\* kw = dt if keyword_out is None else dt + '_' + keyword_out, the tag of the
\* name _save_ICA writes
kw(dt, keyword_out) == IF keyword_out = "None" THEN <<dt>> ELSE <<dt, keyword_out>>

ICANames ==
    {ICATestName(k) : k \in Keywords}
        \cup {kw(data_types[i], k) : i \in 1 .. Len(data_types), k \in Keywords}

ICAArgs == [keyword_out : Keywords, seed : Seeds, overwrite : BOOLEAN]

ICAAlreadyCalculated(files, keyword_out, overwrite) ==
    isfile(files[ICATestName(keyword_out)]) /\ ~overwrite

findICAReject(a) ==
    /\ Idle
    /\ ICAAlreadyCalculated(ica.files, a.keyword_out, a.overwrite)
    /\ last' = [op |-> "findICA", result |-> "ICAExists",
                overwrite |-> a.overwrite, keyword_out |-> a.keyword_out]
    /\ UNCHANGED <<rng, epochEvents, blEvents, allFiles, run>>

\* one decomposition per data type is fitted with random_state=seed and
\* saved, then the cleaned data is saved
findICA(a) ==
    /\ Idle
    /\ ~ICAAlreadyCalculated(ica.files, a.keyword_out, a.overwrite)
    /\ ica' = [files |->
                  [n \in ICANames |->
                      IF \E i \in 1 .. Len(data_types) :
                             n = kw(data_types[i], a.keyword_out)
                      THEN [state |-> "complete", seed |-> a.seed]
                      ELSE ica.files[n]],
               cleaned |->
                  [ica.cleaned EXCEPT ![a.keyword_out] =
                      [state |-> "complete", seed |-> a.seed]]]
    /\ last' = [op |-> "findICA", result |-> "ok",
                overwrite |-> a.overwrite, keyword_out |-> a.keyword_out]
    /\ UNCHANGED <<rng, epochEvents, blEvents, bootFiles, corr, corrNpz,
                   phiFiles, workfiles, jobs, run>>

\* ------------------------------------------- runs sharing a working directory
Subjects == {"s1", "s2"}

JobOps == {"sourceBootstrap", "sourceCorrelation"}

\* 'sb_%s_%s_%s_workfile' % (event, ar, keyword_out), relative to the working
\* directory
Workfile(subject, event, ar, keyword_out) == <<"sb", event, ar, keyword_out>>

\* the runs are made for the same event, ar and keyword
JobWorkfile(s) == Workfile(s, "Response", FALSE, "None")

WorkfileNames == {JobWorkfile(s) : s \in Subjects}

\* the samples of a buffer: one batch of sourceBootstrap, the Nboot samples
\* of sourceCorrelation
JobSlots == 1 .. 2

\* the source estimate of sample i of a subject
JobData(s) == [i \in JobSlots |-> <<s, i>>]

\* np.memmap(name, mode='w+', shape=...) creates or overwrites the file
JobOpen(s, op) ==
    /\ jobs[s].pc \in {"none", "done"}
    /\ workfiles' = [workfiles EXCEPT ![JobWorkfile(s)] =
                        [i \in JobSlots |-> ZeroStc]]
    /\ jobs' = [jobs EXCEPT ![s] = [pc |-> "fill", op |-> op, i |-> 1,
                                    out |-> Absent]]
    /\ UNCHANGED <<rng, epochEvents, blEvents, bootFiles, corr, corrNpz,
                   phiFiles, ica, run, last>>

\* stcs[i] = ... of the batch loop, and of the combining loop
JobFill(s) ==
    /\ jobs[s].pc = "fill"
    /\ workfiles' = [workfiles EXCEPT ![JobWorkfile(s)][jobs[s].i] =
                        JobData(s)[jobs[s].i]]
    /\ jobs' = [jobs EXCEPT ![s].i = @ + 1,
                            ![s].pc = IF jobs[s].i + 1 \in JobSlots
                                      THEN "fill" ELSE "read"]
    /\ UNCHANGED <<rng, epochEvents, blEvents, bootFiles, corr, corrNpz,
                   phiFiles, ica, run, last>>

\* np.savez_compressed(fname2, stcs=stcs) of sourceBootstrap, the regression
\* over stcs of sourceCorrelation: the run takes what the buffer holds
JobRead(s) ==
    /\ jobs[s].pc = "read"
    /\ jobs' = [jobs EXCEPT ![s].pc = "done",
                            ![s].out = [state |-> "complete",
                                        stcs |-> workfiles[JobWorkfile(s)]]]
    /\ UNCHANGED <<rng, epochEvents, blEvents, bootFiles, corr, corrNpz,
                   phiFiles, ica, workfiles, run, last>>

\* ---------------------------------------------------------- trial selection
None == 0 - 1

\* the truth value Python gives an epoch index or None
Truthy(x) == x # None /\ x # 0

\* the columns a condition of the behavior can be
BehaviorColumns == [Rows -> {0, 1}]

\* _behavior_to_epochs_index: list(epochs.events[:,2]).index(ind), or None
behavior_to_epochs_index(events, ind) ==
    IF InSeq(ind, events)
    THEN (CHOOSE j \in 1 .. Len(events) :
              events[j] = ind /\ \A k \in 1 .. (j - 1) : events[k] # ind) - 1
    ELSE None

\* _behavior_to_epochs_indices: the indices whose epoch index is true
behavior_to_epochs_indices(events, indices) ==
    SelectSeq([i \in 1 .. Len(indices) |->
                  behavior_to_epochs_index(events, indices[i])],
              Truthy)

\* _get_indices for a few values: the epochs of every value; a value without
\* epochs has no entry, here the empty list
get_indices(events, column, values) ==
    [value \in values |->
        behavior_to_epochs_indices(
            events, SortedSeq({i \in Rows : column[i] = value}))]

\* epochs[epochs_indices] of dropEpochsByBehaviorIndices, by trial id
KeptEpochs(events, bad_indices) ==
    LET epochs_indices ==
            behavior_to_epochs_indices(events, SortedSeq(Rows \ bad_indices))
    IN  [k \in 1 .. Len(epochs_indices) |-> events[epochs_indices[k] + 1]]

\* _get_indices and dropEpochsByBehaviorIndices on the epochs at hand
SelectTrials ==
    /\ last.op = "epochs"
    /\ last' = [op |-> "selected", result |-> "ok", events |-> last.events,
                column |-> last.column, bad_indices |-> last.bad_indices,
                value_indices |-> get_indices(last.events, last.column, {0, 1}),
                kept |-> KeptEpochs(last.events, last.bad_indices)]
    /\ UNCHANGED <<rng, epochEvents, blEvents, allFiles, run>>

\* ------------------------------------------------------------------- system
Populations == {S \in SUBSET Rows : Cardinality(S) >= NBeh - 1}

NoFiles ==
    /\ manifest = Absent
    /\ ckpt = [k \in BatchKeys |-> Absent]
    /\ tfrCkpt = [k \in TfrKeys |-> Absent]
    /\ srcBase = Absent
    /\ corr = Absent
    /\ corrNpz = Absent
    /\ thr = [v \in Values \cup {AllValue} |-> Absent]
    /\ pci = [v \in Values |-> Absent]
    /\ ica = [files |-> [n \in ICANames |-> Absent],
              cleaned |-> [k \in Keywords |-> Absent]]
    /\ workfiles = [n \in WorkfileNames |-> Absent]
    /\ jobs = [s \in Subjects |-> [pc |-> "none"]]
    /\ run = [pc |-> "none"]

InitFiles ==
    /\ NoFiles
    /\ last = [op |-> "init", result |-> "ok"]

\* nothing on disk, and the arguments of one computation at hand
InitGiven(inputs) ==
    /\ rng = seedState(CtorSeed)
    /\ epochEvents = SortedSeq(Rows)
    /\ blEvents = SortedSeq(Rows)
    /\ NoFiles
    /\ last \in inputs

\* every trial has an epoch and a baseline epoch
Init ==
    /\ rng = seedState(CtorSeed)
    /\ epochEvents = SortedSeq(Rows)
    /\ blEvents = SortedSeq(Rows)
    /\ InitFiles

SBSteps ==
    \/ SBBatchSkip
    \/ SBBatchCompute
    \/ SBSaveBegin
    \/ SBSaveEnd
    \/ SBManifestBegin
    \/ SBManifestEnd
    \/ SBSaveSource

\* bootstrap runs of every size, interrupted and resumed
Next ==
    \/ \E a \in SBArgSet({0}, 1 .. MaxNboot, {1}, 1 .. MaxBatch, {FALSE}, {FALSE}) :
           SBReject(a) \/ SBStart(a)
    \/ SBSteps
    \/ Kill

Spec == Init /\ [][Next]_vars

\* one bootstrap configuration, interrupted and resumed, and its correlation
NextCorr ==
    \/ \E a \in SBArgSet({0}, {2, 3}, {1}, 1 .. MaxBatch, {FALSE}, {FALSE}) :
           SBReject(a) \/ SBStart(a)
    \/ SBSteps
    \/ Kill
    \/ \E a \in SCArgs : sourceCorrelation(a)

SpecCorr == Init /\ [][NextCorr]_vars

\* trial populations with dropped epochs and unmatched baselines
InitData ==
    /\ rng = seedState(CtorSeed)
    /\ epochEvents \in {SortedSeq(S) : S \in Populations}
    /\ blEvents \in {SortedSeq(S) : S \in Populations}
    /\ InitFiles

NextData ==
    \/ \E a \in SBArgSet(Seeds, {2}, 1 .. MaxNave, {2}, {FALSE}, {FALSE}) :
           SBReject(a) \/ SBNoTrials(a) \/ SBStart(a)
    \/ SBSteps
    \/ Kill
    \/ RandomDraw

SpecData == InitData /\ [][NextData]_vars

\* the same populations, resampled and then correlated with the behavior
NextCov ==
    \/ \E a \in SBArgSet({0}, {2}, 1 .. MaxNave, {2}, {FALSE}, {FALSE}) :
           SBReject(a) \/ SBNoTrials(a) \/ SBStart(a)
    \/ SBSteps
    \/ Kill
    \/ \E a \in SCArgs : sourceCorrelation(a)

SpecCov == InitData /\ [][NextCov]_vars

\* the complexity stage, entered again and again with every flag
NextPhi ==
    \/ \E a \in PhiArgSet({{1}, Values}, BOOLEAN, {0}, BOOLEAN, PlainAlpha) :
           \E d \in PlainData : noreunPhi(a, d)
    \/ RandomDraw

SpecPhi == Init /\ [][NextPhi]_vars

\* a pipeline script run again and again: one configuration of each stage
NextStages ==
    \/ \E a \in SBArgSet({0}, {1}, {1}, {1}, {FALSE}, {FALSE}) : SBReject(a) \/ SBStart(a)
    \/ SBSteps
    \/ Kill
    \/ \E a \in SCArgs : sourceCorrelation(a)
    \/ \E a \in PhiArgSet({{1}}, {FALSE}, {0}, BOOLEAN, PlainAlpha) :
           \E d \in PlainData : noreunPhi(a, d)

SpecStages == Init /\ [][NextStages]_vars

\* the cells of a correlation map: every r against every null row
NullRows == UNION {[1 .. n -> RValues] : n \in 1 .. MaxNullSamples}

InitStat == InitGiven([op : {"cell"}, r : RValues, bl_dist : NullRows])

NextStat == CellStatistic

SpecStat == InitStat /\ [][NextStat]_vars

\* the threshold policies on recordings of two sources and two times
ThresholdData ==
    PhiDataSet({<<1, 2>>},
               {<<<<2, 0>>, <<0, 0>>>>, <<<<1, 0 - 3>>, <<0 - 2, 2>>>>,
                <<<<0, 1>>, <<0 - 1, 3>>>>},
               {<<1, 2>>, <<2, 1>>},
               Matrices(1, 2, 0 .. MaxStat) \cup Matrices(2, 2, 0 .. MaxStat),
               {<<1>>, <<2>>, <<1, 2>>})

InitThreshold ==
    InitGiven([op : {"arrays"}, alpha : AlphaArgs(Alphas), data : ThresholdData])

NextThreshold == ThresholdPolicy

SpecThreshold == InitThreshold /\ [][NextThreshold]_vars

\* the complexity stage of one value called with every alpha
AlphaData ==
    PhiDataSet({<<1, 2>>}, {<<<<2, 0>>, <<0, 0>>>>}, {<<1, 2>>},
               {<<<<2, 0>>, <<1, 2>>>>}, {<<1, 2>>})

NextAlpha ==
    \E a \in PhiArgSet({{1}}, {FALSE}, {0}, BOOLEAN, AlphaArgs(Alphas)) :
        \E d \in AlphaData : noreunPhi(a, d)

SpecAlpha == Init /\ [][NextAlpha]_vars

\* every activation pattern of three sources and two times
InitRank ==
    InitGiven([op : {"waveform"}, J : Matrices(3, 2, {0 - 3, 0, 3}),
               Threshold : {kron(<<2, 2, 2>>, 2), kron(<<1, 4, 2>>, 2)},
               tind : {<<1, 2>>, <<2>>}])

NextRank == BinarizeAndRank

SpecRank == InitRank /\ [][NextRank]_vars

\* bootstrap runs with the time-frequency decomposition, interrupted and
\* resumed
NextTfr ==
    \/ \E a \in SBArgSet({0}, {1, 2}, {1}, {1}, {TRUE}, BOOLEAN) :
           SBReject(a) \/ SBStart(a)
    \/ SBSteps
    \/ SBSaveTfr
    \/ Kill

SpecTfr == Init /\ [][NextTfr]_vars

\* the binary matrices of two sources and three times, each with the count
\* curves it can have
InitPCI ==
    InitGiven({x \in [op : {"binary"}, binJ : Matrices(2, 3, {0, 1}),
                      counts : [1 .. 3 -> 0 .. 3]] :
                  x.counts \in LZCurves(x.binJ)})

NextPCI == computePCI

SpecPCI == InitPCI /\ [][NextPCI]_vars

\* the Threshold artifacts an earlier call can have left
StoredThresholds ==
    {Absent} \cup
    {[state |-> "complete", draws |-> 0, Y |-> d.Y, J |-> d.J,
      Threshold |-> ComputeThreshold(al, d).Threshold, alpha |-> al] :
         d \in PlainData,
         al \in PlainAlpha \cup {[policy |-> "50_50", alpha |-> 0]}}

\* the second loop of noreunPhi entered with any Threshold artifacts on disk
InitStage ==
    /\ rng = seedState(CtorSeed)
    /\ epochEvents = SortedSeq(Rows)
    /\ blEvents = SortedSeq(Rows)
    /\ manifest = Absent
    /\ ckpt = [k \in BatchKeys |-> Absent]
    /\ tfrCkpt = [k \in TfrKeys |-> Absent]
    /\ srcBase = Absent
    /\ corr = Absent
    /\ corrNpz = Absent
    /\ thr \in [Values \cup {AllValue} -> StoredThresholds]
    /\ pci = [v \in Values |-> Absent]
    /\ ica = [files |-> [n \in ICANames |-> Absent],
              cleaned |-> [k \in Keywords |-> Absent]]
    /\ workfiles = [n \in WorkfileNames |-> Absent]
    /\ jobs = [s \in Subjects |-> [pc |-> "none"]]
    /\ run = [pc |-> "none"]
    /\ last \in [op : {"artifacts"},
                 args : PhiArgSet({{1}, Values}, BOOLEAN, {0}, {FALSE},
                                  PlainAlpha),
                 data : PlainData]

NextStage == PCIStage

SpecStage == InitStage /\ [][NextStage]_vars

\* findICA called again and again with every keyword, seed and flag
NextICA == \E a \in ICAArgs : findICAReject(a) \/ findICA(a)

SpecICA == Init /\ [][NextICA]_vars

\* two subjects processed at the same time in one working directory
NextJobs ==
    \E s \in Subjects :
        \/ \E op \in JobOps : JobOpen(s, op)
        \/ JobFill(s)
        \/ JobRead(s)

SpecJobs == Init /\ [][NextJobs]_vars

\* the epochs left of the trials, a condition and the trials to drop
InitSelect ==
    InitGiven([op : {"epochs"}, events : {SortedSeq(S) : S \in SUBSET Rows},
               column : BehaviorColumns, bad_indices : SUBSET Rows])

NextSelect == SelectTrials

SpecSelect == InitSelect /\ [][NextSelect]_vars

\* ------------------------------------------------- properties: sourceBootstrap
RunRanges == BatchRanges(run.Nboot, run.batch)

\* a step of the batch loop that skips the current batch
SkipStep == run.pc = "loop" /\ run'.pc = "loop" /\ run'.bi # run.bi

\* a step in which sourceBootstrap returns normally
ReturnStep == run.pc = "source" /\ run'.pc = "done"

\* a step in which the named operation is called
Called(op) == Idle /\ last'.op = op

\* C1: in a run with overwrite=False no batch file that exists is recomputed
\* or rewritten, no absent batch is skipped, and when the run returns every
\* batch file of the run and the manifest exist; a batch whose file exists is
\* recomputed only with overwrite=True.
C1_ResumeSkipsCompleted ==
    [][ /\ (~Idle /\ ~run.overwrite) =>
              \A k \in BatchKeys :
                  (isfile(ckpt[k]) /\ ~(run.pc = "saving" /\ k = CurKey))
                      => ckpt'[k] = ckpt[k]
        /\ (run.pc = "loop" /\ run'.pc = "save") =>
              (run.overwrite \/ ~isfile(ckpt[CurKey]))
        /\ SkipStep => isfile(ckpt[CurKey])
        /\ ReturnStep =>
              /\ manifest'.state = "complete"
              /\ \A i \in 1 .. Len(RunRanges) : isfile(ckpt'[RunRanges[i]])
      ]_vars

\* a resumed run about to return, that skipped one batch and computed another
C1_Witness ==
    /\ run.pc = "source"
    /\ ~run.overwrite
    /\ run.skipped # {}
    /\ \E i \in 1 .. Len(RunRanges) :
           RunRanges[i] \notin run.skipped /\ ckpt[RunRanges[i]].state = "complete"

\* C2: when sourceBootstrap returns, every sample index 0..Nboot-1 lies in
\* exactly one batch range of the run whose checkpoint file exists.
C2_EverySampleInOneBatch ==
    [][ ReturnStep =>
            \A k \in 0 .. (run.Nboot - 1) :
                Cardinality({i \in 1 .. Len(RunRanges) :
                                /\ RunRanges[i][1] <= k
                                /\ k < RunRanges[i][2]
                                /\ isfile(ckpt'[RunRanges[i]])}) = 1
      ]_vars

\* C3: a batch is skipped only if its checkpoint was written completely.
C3_PartialBatchIsAbsent ==
    [][ SkipStep => ckpt[CurKey].state = "complete" ]_vars

\* C4: sourceBootstrap called with overwrite=False while the manifest exists
\* raises, and the call changes no file, draws nothing and starts no run.
C4_RejectsBeforeAnyWork ==
    [][ (Called("sourceBootstrap") /\ ~last'.overwrite /\ isfile(manifest)) =>
            /\ last'.result = "BootstrapsExist"
            /\ allFiles' = allFiles
            /\ rng' = rng
            /\ run' = run
      ]_vars

C4_Witness ==
    /\ last.op = "sourceBootstrap"
    /\ last.result = "BootstrapsExist"
    /\ manifest.state = "complete"
    /\ \E k \in BatchKeys : ckpt[k].state = "complete"

\* ------------------------------------------- properties: overwrite protection
Raised(result) == result \notin {"ok", "running"}

\* the Threshold artifact used for value v by the call recorded in last'
CalledBaselineOf(v) == IF last'.shared_baseline THEN AllValue ELSE v

\* noreunPhi is called without a recompute flag while all its output exists
PhiNothingToDo ==
    /\ Called("noreunPhi")
    /\ ~last'.recalculate_baseline
    /\ ~last'.recalculate_PCI
    /\ \A v \in last'.values :
           isfile(thr[CalledBaselineOf(v)]) /\ isfile(pci[v])

\* C5 as stated: each of the three stages, called without its override flag
\* while its completed output exists, returns normally and changes no file.
C5_NoOverrideIsNoOp ==
    [][ /\ (Called("sourceBootstrap") /\ ~last'.overwrite
               /\ manifest.state = "complete")
              => (~Raised(last'.result) /\ allFiles' = allFiles)
        /\ (Called("sourceCorrelation") /\ ~last'.overwrite /\ isfile(corr))
              => (~Raised(last'.result) /\ allFiles' = allFiles)
        /\ PhiNothingToDo
              => (~Raised(last'.result) /\ allFiles' = allFiles)
      ]_vars

\* C5 amended: without its override flag and with its completed output in
\* place, sourceBootstrap raises 'Bootstraps already exist' and noreunPhi
\* returns normally; either call leaves every file unchanged.
C5_NoOverrideChangesNothing ==
    [][ /\ (Called("sourceBootstrap") /\ ~last'.overwrite
               /\ manifest.state = "complete")
              => (last'.result = "BootstrapsExist" /\ allFiles' = allFiles)
        /\ PhiNothingToDo
              => (last'.result = "ok" /\ last'.wrote = {}
                  /\ allFiles' = allFiles)
      ]_vars

C5_Witness ==
    /\ last.op = "noreunPhi"
    /\ last.result = "ok"
    /\ ~last.recalculate_baseline
    /\ ~last.recalculate_PCI
    /\ last.wrote = {}
    /\ manifest.state = "complete"

\* C6: sourceCorrelation called with overwrite=False while the correlation
\* maps of an earlier call exist is refused and leaves the maps as they are.
C6_CorrelationNotOverwritten ==
    [][ (Called("sourceCorrelation") /\ ~last'.overwrite /\ isfile(corr)) =>
            (last'.result = "CorrelationsExist" /\ corr' = corr)
      ]_vars

\* C7: sourceCorrelation called while the bootstrap manifest is absent raises
\* 'Bootstraps must be computed first' and writes nothing.
C7_BootstrapsFirst ==
    [][ (Called("sourceCorrelation") /\ ~isfile(manifest)) =>
            (last'.result = "BootstrapsFirst" /\ allFiles' = allFiles)
      ]_vars

\* refused after a bootstrap run was interrupted with batches on disk
C7_Witness ==
    /\ last.op = "sourceCorrelation"
    /\ last.result = "BootstrapsFirst"
    /\ \E k \in BatchKeys : ckpt[k].state = "complete"

\* C8: in a noreunPhi call, for every value, an existing Threshold artifact
\* is left as it is unless recalculate_baseline, an existing pci artifact is
\* left as it is unless recalculate_PCI, and a stage whose flag is set is
\* computed again and its artifact written.
C8_StageSkipping ==
    [][ Called("noreunPhi") =>
            \A v \in last'.values :
                /\ (isfile(thr[CalledBaselineOf(v)])
                       /\ ~last'.recalculate_baseline)
                      => /\ thr'[CalledBaselineOf(v)] = thr[CalledBaselineOf(v)]
                         /\ <<"Threshold", CalledBaselineOf(v)>> \notin last'.wrote
                /\ (isfile(pci[v]) /\ ~last'.recalculate_PCI)
                      => /\ pci'[v] = pci[v]
                         /\ <<"pci", v>> \notin last'.wrote
                /\ last'.recalculate_baseline
                      => /\ <<"Threshold", CalledBaselineOf(v)>> \in last'.wrote
                         /\ thr'[CalledBaselineOf(v)].state = "complete"
                /\ last'.recalculate_PCI
                      => /\ <<"pci", v>> \in last'.wrote
                         /\ pci'[v].state = "complete"
                         /\ pci'[v].Threshold = thr'[CalledBaselineOf(v)]
      ]_vars

\* thresholds of two values kept, their PCI computed again on request
C8_Witness ==
    /\ last.op = "noreunPhi"
    /\ ~last.recalculate_baseline
    /\ last.recalculate_PCI
    /\ Cardinality(last.values) > 1
    /\ last.wrote = {<<"pci", v>> : v \in last.values}
    /\ \A v \in last.values : pci[v].Threshold = thr[v]

\* ------------------------------------------------ properties: resampled data
SameResampling(f) ==
    /\ f.state = "complete"
    /\ f.seed = run.seed

\* C9: the index matrix of a run has shape Nboot x Nave and indexes the
\* baseline-matched epochs; it equals the matrix recorded by an earlier run
\* with the same seed, Nboot, Nave and trials, and a batch computed again
\* equals the batch stored by an earlier run with the same seed and Nave,
\* whatever state the generator was in when the run was called.
C9_Determinism ==
    /\ ~Idle =>
          /\ Len(run.bootstrap_indices) = run.Nboot
          /\ \A k \in 1 .. run.Nboot :
                /\ Len(run.bootstrap_indices[k]) = run.Nave
                /\ \A a \in 1 .. run.Nave :
                      run.bootstrap_indices[k][a] \in
                          0 .. (Len(MatchedEvents(epochEvents, blEvents)) - 1)
    /\ (run.pc \in {"loop", "save", "saving"} /\ SameResampling(manifest)
           /\ Len(manifest.bootstrap_indices) = run.Nboot
           /\ Len(manifest.bootstrap_indices[1]) = run.Nave
           /\ manifest.events = run.events)
          => run.bootstrap_indices = manifest.bootstrap_indices
    /\ (run.pc = "save" /\ SameResampling(ckpt[CurKey])
           /\ Len(ckpt[CurKey].stcs[1]) = run.Nave)
          => run.stcs = ckpt[CurKey].stcs

\* a second run, called in another generator state than the seeded one,
\* has recomputed a batch of an earlier run with the same parameters
C9_Witness ==
    /\ run.pc = "save"
    /\ run.entry # seedState(run.seed)
    /\ run.Nave > 1
    /\ Len(run.events) > 1
    /\ SameResampling(manifest)
    /\ Len(manifest.bootstrap_indices) = run.Nboot
    /\ Len(manifest.bootstrap_indices[1]) = run.Nave
    /\ SameResampling(ckpt[CurKey])
    /\ Len(ckpt[CurKey].stcs[1]) = run.Nave

\* C10: the covariate stored for a bootstrap sample is the mean of the
\* behavior over the trials that were averaged to form the sample.
C10_CovariateOfAveragedTrials ==
    corr.state = "complete" =>
        \A i \in 1 .. Len(corr.stcs) :
            corr.stcs[i] # ZeroStc =>
                corr.conditions[i] =
                    nanmean([a \in 1 .. Len(corr.stcs[i]) |->
                                behavior[corr.stcs[i][a]]])

\* ------------------------------------------------ properties: null distribution
\* C11: every row of the reindexing matrix of a correlation run is a
\* bijection on 0..Nboot-1: every bootstrap sample appears exactly once.
C11_NullSampleIsPermutation ==
    corr.state = "complete" =>
        \A p \in 1 .. Len(corr.permutation_indices) :
            /\ Len(corr.permutation_indices[p]) = Len(corr.stcs)
            /\ {corr.permutation_indices[p][j] :
                   j \in 1 .. Len(corr.permutation_indices[p])}
                   = 0 .. (Len(corr.stcs) - 1)

\* C14: a correlation run over the bootstrap artifacts of an earlier
\* correlation run, with the same number of permutations, draws the
\* reindexing matrix the earlier run drew.
C14_NullDistributionReproducible ==
    [][ (/\ Called("sourceCorrelation")
         /\ last'.result = "ok"
         /\ corr.state = "complete"
         /\ corr'.stcs = corr.stcs
         /\ corr'.conditions = corr.conditions
         /\ Len(corr'.permutation_indices) = Len(corr.permutation_indices))
            => corr'.permutation_indices = corr.permutation_indices
      ]_vars

\* ------------------------------------------------- properties: cell statistic
\* the null values of the cell whose magnitude exceeds that of r
NullAbove == {i \in 1 .. Len(last.bl_dist) :
                 last.bl_dist[i] * last.bl_dist[i] > last.r * last.r}

\* the magnitude of the value written is 1/p when p > 0 and
\* 1/n_permutations when p = 0
MagnitudeIsInverseP ==
    /\ NullAbove # {} =>
          abs(last.value[1]) * Cardinality(NullAbove)
              = last.value[2] * last.n_permutations
    /\ NullAbove = {} =>
          abs(last.value[1]) * last.n_permutations = last.value[2]

\* C12 as stated: the value written for a cell has the sign of r; its
\* magnitude is 1/p when p > 0 and 1/n_permutations when p = 0, p being the
\* share of the source's null values strictly above |r|.
C12_SignedInverseP ==
    last.op = "statistic" =>
        /\ last.value[2] > 0
        /\ sign(last.value[1]) = sign(last.r)
        /\ MagnitudeIsInverseP

\* C12 amended: the same for every cell whose r is not zero; the value
\* written for a cell whose r is zero is zero.
C12_SignedInversePOfNonzeroR ==
    last.op = "statistic" =>
        /\ last.value[2] > 0
        /\ sign(last.value[1]) = sign(last.r)
        /\ last.r # 0 => MagnitudeIsInverseP
        /\ last.r = 0 => last.value[1] = 0

\* a cell with a negative r, below some null values and above others
C12_Witness ==
    /\ last.op = "statistic"
    /\ last.r < 0
    /\ NullAbove # {}
    /\ Cardinality(NullAbove) < last.n_permutations
    /\ last.value[1] < 0

\* C13: when p is zero the value written has the magnitude of
\* p = 1/n_permutations, that is n_permutations, and is finite.
C13_ZeroPSubstituted ==
    (last.op = "statistic" /\ NullAbove = {} /\ last.r # 0) =>
        /\ last.value[2] # 0
        /\ abs(last.value[1]) = last.n_permutations * last.value[2]

\* ------------------------------------------------ properties: threshold engine
\* all the max-statistics of the computation recorded in last
AllStats == Flatten(last.data.Bootstraps)

\* floor((1 - alpha) * Nboot * N0)
QuantileIndex(alpha, n) == ((AlphaDen - alpha) * n) \div AlphaDen

\* m stands at 0-based position k of the ascending order of the values of s
IsOrderStatistic(m, k, s) ==
    /\ \E j \in 1 .. Len(s) : s[j] = m
    /\ Cardinality({j \in 1 .. Len(s) : s[j] < m}) <= k
    /\ k < Cardinality({j \in 1 .. Len(s) : s[j] <= m})

\* C15: in the bootstrap mode, with the quantile index inside the array,
\* the Threshold of every source is its baseline standard deviation times
\* the max-statistic at 0-based position floor((1-alpha)*Nboot*N0) of the
\* ascending order.
C15_QuantileMultiplier ==
    (/\ last.op = "threshold"
     /\ last.alpha.policy = "bootstrap"
     /\ QuantileIndex(last.alpha.alpha, Len(AllStats)) \in
            0 .. (Len(AllStats) - 1))
        => /\ last.result = "ok"
           /\ \E m \in 0 .. MaxStat :
                 /\ IsOrderStatistic(m,
                        QuantileIndex(last.alpha.alpha, Len(AllStats)),
                        AllStats)
                 /\ \A s \in 1 .. Len(last.data.J) :
                        \A t \in 1 .. Len(last.data.J[s]) :
                            last.out.Threshold[s][t] = <<m * last.data.Norm[s], 1>>

\* an inner quantile of four unequal statistics, unsorted as they come
C15_Witness ==
    /\ last.op = "threshold"
    /\ last.alpha.policy = "bootstrap"
    /\ last.result = "ok"
    /\ Len(AllStats) = 4
    /\ QuantileIndex(last.alpha.alpha, 4) = 2
    /\ AllStats[1] > AllStats[2]
    /\ AllStats[3] > AllStats[4]
    /\ AllStats[1] # AllStats[3]
    /\ last.out.Threshold[2][1][1] > 0

\* the quantile index of the noreunPhi call made in this step
CalledQuantileIndex ==
    QuantileIndex(last'.alpha.alpha,
                  Len(last'.data.Bootstraps) * Len(last'.data.Bootstraps[1]))

\* C16: a noreunPhi call that has a threshold to compute in the bootstrap
\* mode with alpha putting the quantile index outside 0..Nboot*N0-1 raises
\* and writes no Threshold artifact.
C16_AlphaOutOfRangeFails ==
    [][ (/\ Called("noreunPhi")
         /\ last'.alpha.policy = "bootstrap"
         /\ \E v \in last'.values :
                ~SkipThreshold(thr[CalledBaselineOf(v)],
                               last'.recalculate_baseline)
         /\ CalledQuantileIndex \notin
                0 .. (Len(last'.data.Bootstraps)
                          * Len(last'.data.Bootstraps[1]) - 1))
            => (Raised(last'.result) /\ thr' = thr)
      ]_vars

\* C17: either policy returns a Threshold with one row per source and one
\* column per time sample, constant along every row, and leaves the arrays
\* Y and J as they were given.
C17_ThresholdShapeAndFrame ==
    (last.op = "threshold" /\ last.result = "ok") =>
        /\ Len(last.out.Threshold) = Len(last.data.J)
        /\ \A s \in 1 .. Len(last.data.J) :
              /\ Len(last.out.Threshold[s]) = Len(last.data.J[s])
              /\ \A t \in 1 .. Len(last.data.J[s]) :
                     last.out.Threshold[s][t] = last.out.Threshold[s][1]
        /\ last.out.Y = last.data.Y
        /\ last.out.J = last.data.J

\* the median policy on a source waveform that differs from its medians
C17_Witness ==
    /\ last.op = "threshold"
    /\ last.alpha.policy = "50_50"
    /\ Len(last.data.tind) = 2
    /\ last.out.Threshold[1][1] = <<4, 2>>
    /\ last.out.Threshold[2][2] = <<4, 2>>
    /\ last.data.J[1][2] < 0

\* ------------------------------------------------ properties: binarize and rank
RowCount(M, i) == Cardinality({t \in 1 .. Len(M[i]) : M[i][t] = 1})

\* C19: activation[s,t] is 1 exactly when |J[s,t]| > Threshold[s,t]; the
\* ranked matrix holds every row of it once, in ascending order of the
\* activation counts, rows of equal count in their source order.
C19_BinarizeAndRank ==
    last.op = "rank" =>
        LET J == last.J
            T == last.Threshold
            act == last.ranked.activation
            Irank == last.ranked.Irank
            ranked == last.ranked.binJrank
        IN  /\ \A s \in 1 .. Len(J) : \A t \in 1 .. Len(J[s]) :
                   /\ act[s][t] \in {0, 1}
                   /\ (act[s][t] = 1) <=>
                          (abs(J[s][t]) * T[s][t][2] > T[s][t][1])
            /\ Len(ranked) = Len(act)
            /\ {Irank[i] : i \in 1 .. Len(Irank)} = 1 .. Len(act)
            /\ \A i \in 1 .. Len(ranked) : ranked[i] = act[Irank[i]]
            /\ \A i \in 1 .. (Len(ranked) - 1) :
                   \/ RowCount(ranked, i) < RowCount(ranked, i + 1)
                   \/ /\ RowCount(ranked, i) = RowCount(ranked, i + 1)
                      /\ Irank[i] < Irank[i + 1]

\* three sources: the first most active, the other two equally active
C19_Witness ==
    /\ last.op = "rank"
    /\ RowCount(last.ranked.activation, 1) = 2
    /\ RowCount(last.ranked.activation, 2) = 1
    /\ RowCount(last.ranked.activation, 3) = 1
    /\ last.ranked.activation[2] # last.ranked.activation[3]
    /\ last.ranked.Irank = <<2, 3, 1>>

\* -------------------------------------------- properties: time-frequency bands
\* C18: the power file written for a band and a batch holds, for every sample
\* of the batch, the mean power over the bins of that band, and the phase
\* file of the band the mean phase over its bins.
C18_BandCheckpointsHoldOwnBand ==
    [][ (run.pc = "tfr" /\ run'.pc = "loop") =>
            \A b \in 1 .. Len(Bands) :
                /\ tfrCkpt'[<<"power", Bands[b], CurKey>>].state = "complete"
                /\ tfrCkpt'[<<"power", Bands[b], CurKey>>].data =
                       [i \in 1 .. run.batch |-> Power(Bands[b], run.stcs[i])]
                /\ run.itc =>
                       tfrCkpt'[<<"itc", Bands[b], CurKey>>].data =
                           [i \in 1 .. run.batch |->
                               Phase(Bands[b], run.stcs[i])]
      ]_vars

\* ------------------------------------------------ properties: complexity curve
\* C20: every element of the trajectory ct is a number of [0,1], and the
\* trajectory never decreases along the time axis.
C20_TrajectoryMonotoneInUnit ==
    last.op = "pci" =>
        /\ \A t \in 1 .. Len(last.ct) :
              /\ last.ct[t].kind = "number"
              /\ last.ct[t].c >= 0
              /\ WithinNorm(last.ct[t].c, last.ct[t].norm)
        /\ \A t \in 1 .. (Len(last.ct) - 1) :
              /\ last.ct[t].kind = "number"
              /\ last.ct[t + 1].kind = "number"
              /\ last.ct[t].c <= last.ct[t + 1].c

\* ------------------------------------------------ properties: trials and order
\* C21: a sourceBootstrap call made while fewer trials have a baseline of the
\* same id than Nave raises before any batch: every run that starts its
\* batch loop has at least Nave matched trials.
C21_TooFewTrialsFails ==
    [][ (Called("sourceBootstrap") /\ last'.result = "running") =>
            Len(run'.events) >= run'.Nave
      ]_vars

\* a step inside the batch loop of a run
InLoop == run.pc \in {"loop", "save", "saving", "tfr"}
              /\ run'.pc \in {"loop", "save", "saving", "tfr", "manifest"}

\* C22: the batch index of a run never goes back and moves one batch at a
\* time, the ranges of the batches follow each other, and the computation of
\* a batch starts only when the file of every batch before it is on disk.
C22_BatchesInOrder ==
    [][ /\ InLoop => run'.bi \in {run.bi, run.bi + 1}
        /\ InLoop => \A i \in 1 .. (Len(RunRanges) - 1) :
                         RunRanges[i][2] <= RunRanges[i + 1][1]
        /\ (run.pc = "loop" /\ run'.pc = "save") =>
               \A i \in 1 .. (run.bi - 1) : isfile(ckpt[RunRanges[i]])
      ]_vars

\* the third batch of a run that computes every batch is being computed
C22_Witness ==
    /\ run.pc = "save"
    /\ run.overwrite
    /\ run.bi = 3
    /\ \A i \in 1 .. 2 : ckpt[RunRanges[i]].state = "complete"

\* ------------------------------------------ properties: complexity prerequisites
\* C23: the second loop writes the PCI artifact of a value only from a
\* Threshold artifact that is on disk; when the artifact it needs (the
\* value's own, or that of 'all' with shared_baseline) is missing it raises
\* 'Threshold not computed' for that artifact and writes no PCI artifact of
\* the value.
C23_PCINeedsThreshold ==
    last.op = "pciStage" =>
        /\ \A v \in last.args.values :
              isfile(pci[v]) =>
                  /\ isfile(thr[BaselineOf(last.args, v)])
                  /\ pci[v].Threshold = thr[BaselineOf(last.args, v)]
        /\ (\E v \in last.args.values :
                ~isfile(thr[BaselineOf(last.args, v)])) =>
              /\ last.result = "ThresholdNotComputed"
              /\ ~isfile(thr[last.missing])
              /\ \E v \in last.args.values :
                     /\ last.missing = BaselineOf(last.args, v)
                     /\ ~isfile(pci[v])

\* the PCI of the first value was written, the Threshold artifact of the
\* second is missing
C23_Witness ==
    /\ last.op = "pciStage"
    /\ last.result = "ThresholdNotComputed"
    /\ last.missing = 2
    /\ last.wrote = {<<"pci", 1>>}
    /\ pci[1].Threshold = thr[1]

\* C27: when a noreunPhi call returns, the PCI artifact on disk of every
\* value of the call is the one computed from the Threshold artifact now on
\* disk for that value.
C27_PCIOfCurrentThreshold ==
    [][ (Called("noreunPhi") /\ last'.result = "ok") =>
            \A v \in last'.values :
                isfile(pci'[v]) =>
                    /\ pci'[v].Threshold = thr'[CalledBaselineOf(v)]
                    /\ pci'[v].ranked =
                           RankedBinary(thr'[CalledBaselineOf(v)].J,
                                        thr'[CalledBaselineOf(v)].Threshold,
                                        last'.data.tind)
      ]_vars

\* -------------------------------------------------- properties: ICA protection
\* an earlier findICA run with this keyword_out has saved its decompositions
ICASaved(keyword_out) ==
    \A i \in 1 .. Len(data_types) :
        isfile(ica.files[kw(data_types[i], keyword_out)])

\* C24: findICA called with overwrite=False after a run with the same
\* keyword_out saved its decompositions raises 'ICA already calculated' and
\* leaves the ICA files and the cleaned data as they are.
C24_ICANotRecalculated ==
    [][ (Called("findICA") /\ ~last'.overwrite
             /\ ICASaved(last'.keyword_out)) =>
            (last'.result = "ICAExists" /\ ica' = ica)
      ]_vars

\* --------------------------------------------------- properties: scratch files
\* C30: a run reads from its buffer the samples it wrote there: what a run
\* is about to read, and what it has read, are the source estimates of its
\* own subject.
C30_ScratchNotShared ==
    \A s \in Subjects :
        /\ jobs[s].pc = "read" => workfiles[JobWorkfile(s)] = JobData(s)
        /\ jobs[s].pc = "done" => jobs[s].out.stcs = JobData(s)

\* ------------------------------------------- properties: resumed band checkpoints
\* C25: with tfr, a batch is skipped only if its source file and the power
\* file of every band, and with itc the phase file of every band, exist; when
\* a run returns, every file that sourceCorrelation loads for the batches of
\* the manifest is there.
C25_SkipNeedsEveryArtifact ==
    [][ /\ (SkipStep /\ run.tfr) =>
               /\ isfile(ckpt[CurKey])
               /\ \A b \in 1 .. Len(Bands) :
                      /\ isfile(tfrCkpt[<<"power", Bands[b], CurKey>>])
                      /\ run.itc => isfile(tfrCkpt[<<"itc", Bands[b], CurKey>>])
        /\ (ReturnStep /\ manifest.state = "complete" /\ manifest.tfr) =>
               \A i \in 1 .. Len(ManifestRanges(manifest)) :
                   BatchLoads(manifest, ckpt, tfrCkpt,
                              ManifestRanges(manifest)[i])
      ]_vars

\* ------------------------------------------- properties: manifest and batches
\* C26: whenever the manifest exists, every sample k of its index matrix
\* lies in a batch whose file exists, and the source estimate stored for k
\* in a completely written file is the one of row k of the index matrix
\* over the trials of the manifest.
C26_ManifestMatchesBatches ==
    manifest.state = "complete" =>
        \A k \in 1 .. Len(manifest.bootstrap_indices) :
            \E i \in 1 .. Len(ManifestRanges(manifest)) :
                LET key == ManifestRanges(manifest)[i]
                IN  /\ key[1] < k
                    /\ k <= key[2]
                    /\ isfile(ckpt[key])
                    /\ ckpt[key].state = "complete" =>
                           ckpt[key].stcs[k - key[1]] =
                               SampleStc(manifest.events,
                                         manifest.bootstrap_indices[k])

\* -------------------------------------------------- properties: trial selection
\* C28: the indices selected for a value hold the position of every epoch
\* whose behavior equals the value, and dropEpochsByBehaviorIndices keeps
\* exactly the epochs whose trial is not in bad_indices, in their order.
C28_SelectionByBehavior ==
    last.op = "selected" =>
        /\ \A value \in {0, 1} :
              \A j \in 1 .. Len(last.events) :
                  last.column[last.events[j]] = value =>
                      InSeq(j - 1, last.value_indices[value])
        /\ last.kept =
               SelectSeq(last.events, LAMBDA e : e \notin last.bad_indices)

\* ------------------------------------------- properties: statistic against p
\* the magnitude of the rational q is at least that of the rational p
MagnitudeAtLeast(q, p) == abs(q[1]) * abs(p[2]) >= abs(p[1]) * abs(q[2])

\* C29: for a cell with r not zero, the magnitude written is at least the
\* magnitude written for the same r against any null row of the same length
\* that has more values above |r|.
C29_MagnitudeMonotoneInP ==
    (last.op = "statistic" /\ last.r # 0) =>
        \A other \in [1 .. last.n_permutations -> RValues] :
            Exceedances(last.bl_dist, last.r) < Exceedances(other, last.r) =>
                MagnitudeAtLeast(
                    last.value,
                    InvPStatistic(other, last.r, last.n_permutations))

====
